---- MODULE Spec2Model ----
(***************************************************************************)
(* A model of pumpfun-rs: the instruction builders (create, create_v2,     *)
(* extend_account), the slippage helpers and the two-step metadata         *)
(* uploader (create_token_metadata).                                       *)
(*                                                                         *)
(* Every behaviour is one call of one public function: Init draws the      *)
(* call's inputs, the actions run the function.  Three specifications      *)
(* share the variables: SpecBuild (instruction builders), SpecSlippage     *)
(* (slippage helpers) and Spec (the uploader).                             *)
(***************************************************************************)
EXTENDS Integers, Sequences, FiniteSets, TLC

VARIABLES
    call,        \* the builder call being made: its function and arguments
    ix,          \* what the builder call produced
    slip,        \* the slippage call being made
    slip_out,    \* what the slippage call produced
    pc,          \* create_token_metadata: the await point the call is at
    metadata,    \* create_token_metadata: its CreateTokenMetadata argument
    env,         \* create_token_metadata: what the file system and the network did, in order
    requests,    \* create_token_metadata: the HTTP requests sent so far, in order
    image_uri,   \* create_token_metadata: the local image_uri (step 1's result)
    text,        \* the response body the running upload function last read
    result       \* create_token_metadata: the value the call returned

vars == <<call, ix, slip, slip_out, pc, metadata, env, requests, image_uri, text, result>>

None == [kind |-> "none"]

(***************************************************************************)
(* Bytes and strings.  A Rust String is its UTF-8 bytes; the model draws   *)
(* strings as sequences of characters, each character being its UTF-8      *)
(* encoding ("A" is one byte, "e-acute" is two).                           *)
(***************************************************************************)
MaxStrLen == 2

Chars == { <<65>>, <<195, 169>> }

RECURSIVE Flatten(_)
Flatten(ss) == IF ss = <<>> THEN <<>> ELSE Head(ss) \o Flatten(Tail(ss))

CharSeqs == UNION { [1..n -> Chars] : n \in 0..MaxStrLen }

Strings == { Flatten(cs) : cs \in CharSeqs }

(***************************************************************************)
(* Addresses.  A caller-supplied public key is its 32 bytes; the program   *)
(* constants (constants::accounts) and the program-derived addresses       *)
(* are symbolic terms: a derivation is a term over its seeds and program,  *)
(* so distinct seeds or programs give distinct addresses.                  *)
(***************************************************************************)
PUBKEY_BYTES == 32

Key(bytes) == [kind |-> "key", bytes |-> bytes]

KeyBytes(k) == [i \in 1..PUBKEY_BYTES |-> (k * (i + 6)) % 256]

Pubkeys == { Key(KeyBytes(k)) : k \in {1, 255} }

Program(name) == [kind |-> "program", name |-> name]

PUMPFUN == Program("PUMPFUN")
MPL_TOKEN_METADATA == Program("MPL_TOKEN_METADATA")
SYSTEM_PROGRAM == Program("SYSTEM_PROGRAM")
TOKEN_PROGRAM == Program("TOKEN_PROGRAM")
TOKEN_2022_PROGRAM == Program("TOKEN_2022_PROGRAM")
ASSOCIATED_TOKEN_PROGRAM == Program("ASSOCIATED_TOKEN_PROGRAM")
RENT == Program("RENT")
EVENT_AUTHORITY == Program("EVENT_AUTHORITY")
MAYHEM_PROGRAM == Program("MAYHEM_PROGRAM")

Pda(seeds, program) == [kind |-> "pda", seeds |-> seeds, program |-> program]

Some(v) == [kind |-> "some", value |-> v]

\* Option<Pubkey>: None when no bump seed yields an off-curve address for the mint.
get_bonding_curve_pda(mint, bump_found) ==
    IF bump_found THEN Some(Pda(<<"bonding-curve", mint>>, PUMPFUN)) ELSE None

get_mint_authority_pda == Pda(<<"mint-authority">>, PUMPFUN)

get_global_pda == Pda(<<"global">>, PUMPFUN)

get_metadata_pda(mint) ==
    Pda(<<"metadata", MPL_TOKEN_METADATA, mint>>, MPL_TOKEN_METADATA)

get_global_params_pda == Pda(<<"global-params">>, MAYHEM_PROGRAM)

get_sol_vault_pda == Pda(<<"sol-vault">>, MAYHEM_PROGRAM)

get_mayhem_state_pda(mint) == Pda(<<"mayhem-state", mint>>, MAYHEM_PROGRAM)

get_associated_token_address_with_program(wallet, mint, token_program) ==
    Pda(<<wallet, token_program, mint>>, ASSOCIATED_TOKEN_PROGRAM)

get_token_vault_pda(mint) ==
    get_associated_token_address_with_program(get_sol_vault_pda, mint, TOKEN_2022_PROGRAM)

\* spl_associated_token_account::get_associated_token_address: the legacy token program.
get_associated_token_address(wallet, mint) ==
    get_associated_token_address_with_program(wallet, mint, TOKEN_PROGRAM)

(***************************************************************************)
(* AccountMeta and Instruction.                                            *)
(***************************************************************************)
AccountMeta_new(pubkey, is_signer) ==
    [pubkey |-> pubkey, is_signer |-> is_signer, is_writable |-> TRUE]

AccountMeta_new_readonly(pubkey, is_signer) ==
    [pubkey |-> pubkey, is_signer |-> is_signer, is_writable |-> FALSE]

Instruction_new_with_bytes(program_id, data, accounts) ==
    [kind |-> "ok", program_id |-> program_id, data |-> data, accounts |-> accounts]

Panic == [kind |-> "panic"]

(***************************************************************************)
(* Borsh serialization of the instruction arguments.                       *)
(***************************************************************************)
U32LE(n) ==
    << n % 256, (n \div 256) % 256, (n \div 65536) % 256, (n \div 16777216) % 256 >>

\* String: a u32 little-endian byte length, then the UTF-8 bytes.
BorshString(s) == U32LE(Len(s)) \o s

\* Pubkey: its 32 bytes.
BorshPubkey(k) == k.bytes

\* bool: one byte, 1 or 0.
BorshBool(b) == << IF b THEN 1 ELSE 0 >>

Create_DISCRIMINATOR == <<24, 30, 200, 40, 5, 28, 7, 119>>

\* Mutant of Create_serialize: symbol written before name.
Create_serialize_symbol_first(args) ==
    BorshString(args.symbol) \o BorshString(args.name) \o BorshString(args.uri)
        \o BorshPubkey(args.creator)

Create_serialize(args) ==
    BorshString(args.name) \o BorshString(args.symbol) \o BorshString(args.uri)
        \o BorshPubkey(args.creator)

Create_data(args) == Create_DISCRIMINATOR \o Create_serialize(args)

CreateV2_DISCRIMINATOR == <<214, 144, 76, 236, 95, 139, 49, 180>>

CreateV2_serialize(args) ==
    BorshString(args.name) \o BorshString(args.symbol) \o BorshString(args.uri)
        \o BorshPubkey(args.creator) \o BorshBool(args.is_mayhem_mode)

\* Mutant of CreateV2_data: the discriminator of Create, copied over.
CreateV2_data_create_discriminator(args) ==
    Create_DISCRIMINATOR \o CreateV2_serialize(args)

CreateV2_data(args) == CreateV2_DISCRIMINATOR \o CreateV2_serialize(args)

ExtendAccount_DISCRIMINATOR == <<234, 102, 194, 203, 150, 72, 62, 229>>

(***************************************************************************)
(* The instruction builders.                                               *)
(***************************************************************************)
\* Mutant of create: the payer and the mint change places in the account list.
create_payer_first(payer, mint, args, bump_found) ==
    LET derived == get_bonding_curve_pda(mint, bump_found) IN
    IF derived = None THEN Panic
    ELSE
    LET bonding_curve == derived.value IN
    Instruction_new_with_bytes(
        PUMPFUN,
        Create_data(args),
        << AccountMeta_new(payer, TRUE),
           AccountMeta_new(get_mint_authority_pda, FALSE),
           AccountMeta_new(bonding_curve, FALSE),
           AccountMeta_new(get_associated_token_address(bonding_curve, mint), FALSE),
           AccountMeta_new_readonly(get_global_pda, FALSE),
           AccountMeta_new_readonly(MPL_TOKEN_METADATA, FALSE),
           AccountMeta_new(get_metadata_pda(mint), FALSE),
           AccountMeta_new(mint, TRUE),
           AccountMeta_new_readonly(SYSTEM_PROGRAM, FALSE),
           AccountMeta_new_readonly(TOKEN_PROGRAM, FALSE),
           AccountMeta_new_readonly(ASSOCIATED_TOKEN_PROGRAM, FALSE),
           AccountMeta_new_readonly(RENT, FALSE),
           AccountMeta_new_readonly(EVENT_AUTHORITY, FALSE),
           AccountMeta_new_readonly(PUMPFUN, FALSE) >>)

create(payer, mint, args, bump_found) ==
    LET derived == get_bonding_curve_pda(mint, bump_found) IN
    IF derived = None THEN Panic     \* .unwrap() on None
    ELSE
    LET bonding_curve == derived.value IN
    Instruction_new_with_bytes(
        PUMPFUN,
        Create_data(args),
        << AccountMeta_new(mint, TRUE),
           AccountMeta_new(get_mint_authority_pda, FALSE),
           AccountMeta_new(bonding_curve, FALSE),
           AccountMeta_new(get_associated_token_address(bonding_curve, mint), FALSE),
           AccountMeta_new_readonly(get_global_pda, FALSE),
           AccountMeta_new_readonly(MPL_TOKEN_METADATA, FALSE),
           AccountMeta_new(get_metadata_pda(mint), FALSE),
           AccountMeta_new(payer, TRUE),
           AccountMeta_new_readonly(SYSTEM_PROGRAM, FALSE),
           AccountMeta_new_readonly(TOKEN_PROGRAM, FALSE),
           AccountMeta_new_readonly(ASSOCIATED_TOKEN_PROGRAM, FALSE),
           AccountMeta_new_readonly(RENT, FALSE),
           AccountMeta_new_readonly(EVENT_AUTHORITY, FALSE),
           AccountMeta_new_readonly(PUMPFUN, FALSE) >>)

\* Mutant of create_v2: the associated account is derived as create derives it, with
\* the legacy token program.
create_v2_legacy_associated_account(payer, mint, args, bump_found) ==
    LET derived == get_bonding_curve_pda(mint, bump_found) IN
    IF derived = None THEN Panic     \* .unwrap() on None
    ELSE
    LET bonding_curve == derived.value
        mayhem_program == MAYHEM_PROGRAM
        global_params == get_global_params_pda
        sol_vault == get_sol_vault_pda
        mayhem_state == get_mayhem_state_pda(mint)
        mayhem_token_vault == get_token_vault_pda(mint)
        associated_bonding_curve ==
            get_associated_token_address(bonding_curve, mint)
    IN
    Instruction_new_with_bytes(
        PUMPFUN,
        CreateV2_data(args),
        << AccountMeta_new(mint, TRUE),
           AccountMeta_new(get_mint_authority_pda, FALSE),
           AccountMeta_new(bonding_curve, FALSE),
           AccountMeta_new(associated_bonding_curve, FALSE),
           AccountMeta_new_readonly(get_global_pda, FALSE),
           AccountMeta_new(payer, TRUE),
           AccountMeta_new_readonly(SYSTEM_PROGRAM, FALSE),
           AccountMeta_new_readonly(TOKEN_2022_PROGRAM, FALSE),
           AccountMeta_new_readonly(ASSOCIATED_TOKEN_PROGRAM, FALSE),
           AccountMeta_new(mayhem_program, FALSE),
           AccountMeta_new_readonly(global_params, FALSE),
           AccountMeta_new(sol_vault, FALSE),
           AccountMeta_new(mayhem_state, FALSE),
           AccountMeta_new(mayhem_token_vault, FALSE),
           AccountMeta_new_readonly(EVENT_AUTHORITY, FALSE),
           AccountMeta_new_readonly(PUMPFUN, FALSE) >>)

create_v2(payer, mint, args, bump_found) ==
    LET derived == get_bonding_curve_pda(mint, bump_found) IN
    IF derived = None THEN Panic     \* .unwrap() on None
    ELSE
    LET bonding_curve == derived.value
        mayhem_program == MAYHEM_PROGRAM
        global_params == get_global_params_pda
        sol_vault == get_sol_vault_pda
        mayhem_state == get_mayhem_state_pda(mint)
        mayhem_token_vault == get_token_vault_pda(mint)
        associated_bonding_curve ==
            get_associated_token_address_with_program(bonding_curve, mint, TOKEN_2022_PROGRAM)
    IN
    Instruction_new_with_bytes(
        PUMPFUN,
        CreateV2_data(args),
        << AccountMeta_new(mint, TRUE),
           AccountMeta_new(get_mint_authority_pda, FALSE),
           AccountMeta_new(bonding_curve, FALSE),
           AccountMeta_new(associated_bonding_curve, FALSE),
           AccountMeta_new_readonly(get_global_pda, FALSE),
           AccountMeta_new(payer, TRUE),
           AccountMeta_new_readonly(SYSTEM_PROGRAM, FALSE),
           AccountMeta_new_readonly(TOKEN_2022_PROGRAM, FALSE),
           AccountMeta_new_readonly(ASSOCIATED_TOKEN_PROGRAM, FALSE),
           AccountMeta_new(mayhem_program, FALSE),
           AccountMeta_new_readonly(global_params, FALSE),
           AccountMeta_new(sol_vault, FALSE),
           AccountMeta_new(mayhem_state, FALSE),
           AccountMeta_new(mayhem_token_vault, FALSE),
           AccountMeta_new_readonly(EVENT_AUTHORITY, FALSE),
           AccountMeta_new_readonly(PUMPFUN, FALSE) >>)

extend_account(payer, account) ==
    Instruction_new_with_bytes(
        PUMPFUN,
        ExtendAccount_DISCRIMINATOR,
        << AccountMeta_new(account, FALSE),
           AccountMeta_new(payer, TRUE),
           AccountMeta_new_readonly(SYSTEM_PROGRAM, FALSE),
           AccountMeta_new_readonly(EVENT_AUTHORITY, FALSE),
           AccountMeta_new_readonly(PUMPFUN, FALSE) >>)

(***************************************************************************)
(* The builder calls a behaviour can make, and the actions that run them.  *)
(***************************************************************************)
CreateArgs ==
    [name : Strings, symbol : Strings, uri : Strings, creator : Pubkeys]

CreateV2Args ==
    [name : Strings, symbol : Strings, uri : Strings, creator : Pubkeys,
     is_mayhem_mode : BOOLEAN]

BuildCalls ==
    [fn : {"create"}, payer : Pubkeys, mint : Pubkeys, args : CreateArgs,
     bump_found : BOOLEAN]
    \cup [fn : {"create_v2"}, payer : Pubkeys, mint : Pubkeys, args : CreateV2Args,
          bump_found : BOOLEAN]
    \cup [fn : {"extend_account"}, payer : Pubkeys, account : Pubkeys]

Idle ==
    /\ slip = None /\ slip_out = None
    /\ pc = "idle" /\ metadata = None /\ env = None /\ requests = <<>>
    /\ image_uri = None /\ text = None /\ result = None

InitBuild ==
    /\ call \in BuildCalls
    /\ ix = None
    /\ Idle

Create ==
    /\ call.fn = "create" /\ ix = None
    /\ ix' = create(call.payer, call.mint, call.args, call.bump_found)
    /\ UNCHANGED <<call, slip, slip_out, pc, metadata, env, requests, image_uri, text, result>>

CreateV2 ==
    /\ call.fn = "create_v2" /\ ix = None
    /\ ix' = create_v2(call.payer, call.mint, call.args, call.bump_found)
    /\ UNCHANGED <<call, slip, slip_out, pc, metadata, env, requests, image_uri, text, result>>

ExtendAccount ==
    /\ call.fn = "extend_account" /\ ix = None
    /\ ix' = extend_account(call.payer, call.account)
    /\ UNCHANGED <<call, slip, slip_out, pc, metadata, env, requests, image_uri, text, result>>

NextBuild == Create \/ CreateV2 \/ ExtendAccount

SpecBuild == InitBuild /\ [][NextBuild]_vars

(***************************************************************************)
(* Borsh deserialization (the derived BorshDeserialize of Create and       *)
(* CreateV2, read with try_from_slice: every byte must be consumed).       *)
(* A reader returns [ok, value, rest].                                     *)
(***************************************************************************)
Fail == [ok |-> FALSE]

Read(v, rest) == [ok |-> TRUE, value |-> v, rest |-> rest]

Drop(bytes, n) == SubSeq(bytes, n + 1, Len(bytes))

IsCont(b) == b >= 128 /\ b <= 191

\* core::str::from_utf8: whether the bytes are well-formed UTF-8.
RECURSIVE Utf8Valid(_)
Utf8Valid(b) ==
    IF b = <<>> THEN TRUE
    ELSE IF b[1] < 128 THEN Utf8Valid(Drop(b, 1))
    ELSE IF b[1] >= 194 /\ b[1] <= 223
        THEN Len(b) >= 2 /\ IsCont(b[2]) /\ Utf8Valid(Drop(b, 2))
    ELSE IF b[1] >= 224 /\ b[1] <= 239
        THEN /\ Len(b) >= 3 /\ IsCont(b[2]) /\ IsCont(b[3])
             /\ (b[1] = 224 => b[2] >= 160)
             /\ (b[1] = 237 => b[2] <= 159)
             /\ Utf8Valid(Drop(b, 3))
    ELSE IF b[1] >= 240 /\ b[1] <= 244
        THEN /\ Len(b) >= 4 /\ IsCont(b[2]) /\ IsCont(b[3]) /\ IsCont(b[4])
             /\ (b[1] = 240 => b[2] >= 144)
             /\ (b[1] = 244 => b[2] <= 143)
             /\ Utf8Valid(Drop(b, 4))
    ELSE FALSE

\* String: the u32 length, that many bytes, which must be UTF-8.  A length whose
\* two high bytes are not zero is at least 65536, more than any payload here holds.
ReadString(b) ==
    IF Len(b) < 4 THEN Fail
    ELSE IF b[3] # 0 \/ b[4] # 0 THEN Fail
    ELSE LET n == b[1] + 256 * b[2]
             body == Drop(b, 4)
         IN IF Len(body) < n THEN Fail
            ELSE IF ~Utf8Valid(SubSeq(body, 1, n)) THEN Fail
            ELSE Read(SubSeq(body, 1, n), Drop(body, n))

ReadPubkey(b) ==
    IF Len(b) < PUBKEY_BYTES THEN Fail
    ELSE Read(Key(SubSeq(b, 1, PUBKEY_BYTES)), Drop(b, PUBKEY_BYTES))

ReadBool(b) ==
    IF Len(b) < 1 THEN Fail
    ELSE IF b[1] = 0 THEN Read(FALSE, Drop(b, 1))
    ELSE IF b[1] = 1 THEN Read(TRUE, Drop(b, 1))
    ELSE Fail

Create_try_from_slice(b) ==
    LET name == ReadString(b) IN
    IF ~name.ok THEN None ELSE
    LET symbol == ReadString(name.rest) IN
    IF ~symbol.ok THEN None ELSE
    LET uri == ReadString(symbol.rest) IN
    IF ~uri.ok THEN None ELSE
    LET creator == ReadPubkey(uri.rest) IN
    IF ~creator.ok THEN None ELSE
    IF creator.rest # <<>> THEN None ELSE
    Some([name |-> name.value, symbol |-> symbol.value, uri |-> uri.value,
          creator |-> creator.value])

CreateV2_try_from_slice(b) ==
    LET name == ReadString(b) IN
    IF ~name.ok THEN None ELSE
    LET symbol == ReadString(name.rest) IN
    IF ~symbol.ok THEN None ELSE
    LET uri == ReadString(symbol.rest) IN
    IF ~uri.ok THEN None ELSE
    LET creator == ReadPubkey(uri.rest) IN
    IF ~creator.ok THEN None ELSE
    LET is_mayhem_mode == ReadBool(creator.rest) IN
    IF ~is_mayhem_mode.ok THEN None ELSE
    IF is_mayhem_mode.rest # <<>> THEN None ELSE
    Some([name |-> name.value, symbol |-> symbol.value, uri |-> uri.value,
          creator |-> creator.value, is_mayhem_mode |-> is_mayhem_mode.value])

(***************************************************************************)
(* Unsigned 64-bit arithmetic.  A natural number is its base-256 limbs,    *)
(* least significant first, with no high zero limb (zero is <<>>); a u64   *)
(* is a natural of at most U64_BYTES limbs.  Products of two u64 need 16   *)
(* limbs, so the arithmetic below is exact at any length and the u64       *)
(* operations check or wrap at U64_BYTES limbs as Rust does.               *)
(***************************************************************************)
U64_BYTES == 8

RECURSIVE Trim(_)
Trim(a) ==
    IF a = <<>> THEN <<>>
    ELSE IF a[Len(a)] = 0 THEN Trim(SubSeq(a, 1, Len(a) - 1))
    ELSE a

RECURSIVE NatLimbs(_)
NatLimbs(n) == IF n = 0 THEN <<>> ELSE <<n % 256>> \o NatLimbs(n \div 256)

Limb(a, i) == IF i <= Len(a) THEN a[i] ELSE 0

Rest(a) == IF a = <<>> THEN <<>> ELSE Tail(a)

RECURSIVE AddCarry(_, _, _)
AddCarry(a, b, c) ==
    IF a = <<>> /\ b = <<>> THEN (IF c = 0 THEN <<>> ELSE <<c>>)
    ELSE LET s == Limb(a, 1) + Limb(b, 1) + c
         IN <<s % 256>> \o AddCarry(Rest(a), Rest(b), s \div 256)

BigAdd(a, b) == Trim(AddCarry(a, b, 0))

\* a - b for a >= b
RECURSIVE SubBorrow(_, _, _)
SubBorrow(a, b, c) ==
    IF a = <<>> THEN <<>>
    ELSE LET d == a[1] - Limb(b, 1) - c
         IN IF d < 0 THEN <<d + 256>> \o SubBorrow(Tail(a), Rest(b), 1)
            ELSE <<d>> \o SubBorrow(Tail(a), Rest(b), 0)

BigSub(a, b) == Trim(SubBorrow(a, b, 0))

RECURSIVE MulLimb(_, _, _)
MulLimb(a, d, c) ==
    IF a = <<>> THEN (IF c = 0 THEN <<>> ELSE <<c>>)
    ELSE LET s == a[1] * d + c
         IN <<s % 256>> \o MulLimb(Tail(a), d, s \div 256)

RECURSIVE BigMul(_, _)
BigMul(a, b) ==
    IF a = <<>> \/ b = <<>> THEN <<>>
    ELSE LET high == BigMul(Tail(a), b)
         IN BigAdd(MulLimb(b, a[1], 0), IF high = <<>> THEN <<>> ELSE <<0>> \o high)

\* quotient and remainder by a small divisor d (d * 256 fits the checker's integers)
RECURSIVE DivRem(_, _)
DivRem(a, d) ==
    IF a = <<>> THEN [q |-> <<>>, r |-> 0]
    ELSE LET high == DivRem(Tail(a), d)
             cur == high.r * 256 + a[1]
         IN [q |-> <<cur \div d>> \o high.q, r |-> cur % d]

BigDiv(a, d) == Trim(DivRem(a, d).q)

RECURSIVE BigLess(_, _)
BigLess(a, b) ==
    IF Len(a) # Len(b) THEN Len(a) < Len(b)
    ELSE IF a = <<>> THEN FALSE
    ELSE IF a[Len(a)] # b[Len(b)] THEN a[Len(a)] < b[Len(b)]
    ELSE BigLess(Trim(SubSeq(a, 1, Len(a) - 1)), Trim(SubSeq(b, 1, Len(b) - 1)))

BigLeq(a, b) == a = b \/ BigLess(a, b)

FitsU64(a) == Len(a) <= U64_BYTES

\* a mod 2^64
WrapU64(a) == Trim(SubSeq(a, 1, IF Len(a) < U64_BYTES THEN Len(a) ELSE U64_BYTES))

TwoPow64 == [i \in 1..(U64_BYTES + 1) |-> IF i = U64_BYTES + 1 THEN 1 ELSE 0]

U64_MAX == [i \in 1..U64_BYTES |-> 255]

\* Rust's u64 operators: with overflow checks (the debug profile) an overflow panics,
\* without them (the release profile) the result wraps modulo 2^64.
Ok(v) == [kind |-> "ok", value |-> v]

u64_mul(a, b, overflow_checks) ==
    LET p == BigMul(a, b) IN
    IF FitsU64(p) THEN Ok(p)
    ELSE IF overflow_checks THEN Panic ELSE Ok(WrapU64(p))

u64_add(a, b, overflow_checks) ==
    LET s == BigAdd(a, b) IN
    IF FitsU64(s) THEN Ok(s)
    ELSE IF overflow_checks THEN Panic ELSE Ok(WrapU64(s))

u64_sub(a, b, overflow_checks) ==
    IF BigLeq(b, a) THEN Ok(BigSub(a, b))
    ELSE IF overflow_checks THEN Panic ELSE Ok(BigSub(BigAdd(a, TwoPow64), b))

BASIS_POINTS_DIVISOR == 10000

\* Mutant of calculate_with_slippage_buy: divides before it multiplies.
calculate_with_slippage_buy_divide_first(amount, basis_points, overflow_checks) ==
    LET product ==
            u64_mul(BigDiv(amount, BASIS_POINTS_DIVISOR), basis_points, overflow_checks)
    IN IF product = Panic THEN Panic
       ELSE u64_add(amount, product.value, overflow_checks)

calculate_with_slippage_buy(amount, basis_points, overflow_checks) ==
    LET product == u64_mul(amount, basis_points, overflow_checks) IN
    IF product = Panic THEN Panic
    ELSE u64_add(amount, BigDiv(product.value, BASIS_POINTS_DIVISOR), overflow_checks)

calculate_with_slippage_sell(amount, basis_points, overflow_checks) ==
    LET product == u64_mul(amount, basis_points, overflow_checks) IN
    IF product = Panic THEN Panic
    ELSE u64_sub(amount, BigDiv(product.value, BASIS_POINTS_DIVISOR), overflow_checks)

(***************************************************************************)
(* The slippage calls a behaviour can make.                                *)
(***************************************************************************)
Amounts ==
    { NatLimbs(n) : n \in {0, 1, 2, 9999, 10000, 10001, 1000000000, 2147483647} }
    \cup { U64_MAX, BigSub(U64_MAX, NatLimbs(1)),
           <<0, 0, 0, 0, 1>>, <<0, 0, 0, 0, 0, 0, 0, 128>>,
           BigDiv(U64_MAX, 10000), BigAdd(BigDiv(U64_MAX, 10000), NatLimbs(1)) }

BasisPoints ==
    { NatLimbs(n) : n \in {0, 1, 2, 50, 100, 9999, 10000, 10001, 20000} }
    \cup { U64_MAX, <<0, 0, 0, 0, 1>> }

SlippageCalls ==
    [fn : {"calculate_with_slippage_buy", "calculate_with_slippage_sell"},
     amount : Amounts, basis_points : BasisPoints, overflow_checks : BOOLEAN]

InitSlippage ==
    /\ slip \in SlippageCalls
    /\ slip_out = None
    /\ call = None /\ ix = None
    /\ pc = "idle" /\ metadata = None /\ env = None /\ requests = <<>>
    /\ image_uri = None /\ text = None /\ result = None

SlippageBuy ==
    /\ slip.fn = "calculate_with_slippage_buy" /\ slip_out = None
    /\ slip_out' =
         calculate_with_slippage_buy(slip.amount, slip.basis_points, slip.overflow_checks)
    /\ UNCHANGED <<call, ix, slip, pc, metadata, env, requests, image_uri, text, result>>

SlippageSell ==
    /\ slip.fn = "calculate_with_slippage_sell" /\ slip_out = None
    /\ slip_out' =
         calculate_with_slippage_sell(slip.amount, slip.basis_points, slip.overflow_checks)
    /\ UNCHANGED <<call, ix, slip, pc, metadata, env, requests, image_uri, text, result>>

NextSlippage == SlippageBuy \/ SlippageSell

SpecSlippage == InitSlippage /\ [][NextSlippage]_vars

(***************************************************************************)
(* Text.  A text (a form value, a URI, a JSON string) is its sequence of   *)
(* characters, so that to_lowercase, contains and starts_with are computed *)
(* on it.                                                                  *)
(***************************************************************************)
UpperCase == <<"A", "B", "C", "D", "E", "F", "G", "H", "I", "J", "K", "L", "M",
               "N", "O", "P", "Q", "R", "S", "T", "U", "V", "W", "X", "Y", "Z">>

LowerCase == <<"a", "b", "c", "d", "e", "f", "g", "h", "i", "j", "k", "l", "m",
               "n", "o", "p", "q", "r", "s", "t", "u", "v", "w", "x", "y", "z">>

char_to_lowercase(c) ==
    IF \E i \in 1..Len(UpperCase) : UpperCase[i] = c
    THEN LowerCase[CHOOSE i \in 1..Len(UpperCase) : UpperCase[i] = c]
    ELSE c

to_lowercase(s) == [i \in 1..Len(s) |-> char_to_lowercase(s[i])]

contains(s, pat) ==
    \E i \in 1..(Len(s) - Len(pat) + 1) : SubSeq(s, i, i + Len(pat) - 1) = pat

starts_with(s, pat) == Len(s) >= Len(pat) /\ SubSeq(s, 1, Len(pat)) = pat

(***************************************************************************)
(* serde_json::Value.  An object is a map from its keys to values; with    *)
(* serde_json's default features the map is a BTreeMap, iterated in the    *)
(* byte order of the keys.                                                 *)
(***************************************************************************)
JNull == [t |-> "null"]
JBool(b) == [t |-> "bool", b |-> b]
JNumber(n) == [t |-> "number", n |-> n]
JString(s) == [t |-> "string", s |-> s]
JArray(items) == [t |-> "array", items |-> items]
JObject(members) == [t |-> "object", members |-> members]

\* every key the model's documents use, in byte order
KeyOrder ==
    << "createdOn", "data", "description", "image", "imageUri", "image_uri", "link",
       "location", "metadata", "metadataUri", "metadata_uri", "name", "result",
       "showName", "symbol", "telegram", "twitter", "uri", "url", "website" >>

ObjectValues(v) ==
    LET keys == SelectSeq(KeyOrder, LAMBDA k : k \in DOMAIN v.members)
    IN [i \in 1..Len(keys) |-> v.members[keys[i]]]

\* Value::get(key): the member of an object, None for a missing key or a non-object
Value_get(v, key) ==
    IF v.t = "object" /\ key \in DOMAIN v.members THEN Some(v.members[key]) ELSE None

\* .and_then(|v| v.as_str())
and_then_as_str(opt) ==
    IF opt # None /\ opt.value.t = "string" THEN Some(opt.value.s) ELSE None

get_str(v, key) == and_then_as_str(Value_get(v, key))

looks_like_location(s) ==
    LET s_l == to_lowercase(s)
    IN contains(s_l, <<"i", "p", "f", "s">>) \/ starts_with(s_l, <<"h", "t", "t", "p">>)

RECURSIVE find_ipfs_string(_), find_first(_)
find_first(values) ==
    IF values = <<>> THEN None
    ELSE LET found == find_ipfs_string(Head(values))
         IN IF found # None THEN found ELSE find_first(Tail(values))

find_ipfs_string(v) ==
    CASE v.t = "string" -> IF looks_like_location(v.s) THEN Some(v.s) ELSE None
      [] v.t = "array" -> find_first(v.items)
      [] v.t = "object" -> find_first(ObjectValues(v))
      [] OTHER -> None

(***************************************************************************)
(* The response text and serde_json::from_str.  A response body is either  *)
(* a text that is no JSON document, or the text of a JSON document, known  *)
(* by the value it parses to.                                              *)
(***************************************************************************)
NotJson(raw) == [json |-> FALSE, raw |-> raw]

Json(v) == [json |-> TRUE, value |-> v]

Err(e) == [kind |-> "err", error |-> e]

\* serde_json's syntax error: a category and a position, not the input
SerdeSyntaxError == [type |-> "serde_json"]

\* format!("<message>{}", text): a message with the response body attached
ErrorWithBody(message, body) == [type |-> "message", message |-> message, text |-> body]

from_str_Value(body) == IF body.json THEN Ok(body.value) ELSE Err(SerdeSyntaxError)

\* A derived Deserialize reads a struct from an object (unknown keys ignored) or
\* from an array holding exactly its fields in order.
field_string(v, key, index) ==
    IF v.t = "object" THEN get_str(v, key)
    ELSE IF v.t = "array" /\ index <= Len(v.items) /\ v.items[index].t = "string"
         THEN Some(v.items[index].s)
    ELSE None

\* Option<String>: a missing member or null is None; anything but a string is an error
field_opt_string_ok(v, key, index) ==
    LET member == IF v.t = "object" THEN Value_get(v, key)
                  ELSE IF v.t = "array" /\ index <= Len(v.items) THEN Some(v.items[index])
                  ELSE None
    IN member = None \/ member.value.t \in {"null", "string"}

field_opt_string(v, key, index) ==
    LET s == field_string(v, key, index) IN IF s = None THEN None ELSE Some(s.value)

field_bool(v, key, index) ==
    LET member == IF v.t = "object" THEN Value_get(v, key)
                  ELSE IF v.t = "array" /\ index <= Len(v.items) THEN Some(v.items[index])
                  ELSE None
    IN IF member # None /\ member.value.t = "bool" THEN Some(member.value.b) ELSE None

ImageUploadResponse_deserialize(v) ==
    IF v.t = "array" /\ Len(v.items) # 1 THEN None
    ELSE LET image_uri_ == field_string(v, "imageUri", 1)
         IN IF image_uri_ = None THEN None ELSE Some([image_uri |-> image_uri_.value])

TokenMetadata_deserialize(v) ==
    IF v.t = "array" /\ Len(v.items) # 9 THEN None
    ELSE LET name == field_string(v, "name", 1)
             symbol == field_string(v, "symbol", 2)
             description == field_string(v, "description", 3)
             image == field_string(v, "image", 4)
             show_name == field_bool(v, "showName", 5)
             created_on == field_string(v, "createdOn", 6)
         IN IF \/ None \in {name, symbol, description, image, show_name, created_on}
               \/ ~field_opt_string_ok(v, "twitter", 7)
               \/ ~field_opt_string_ok(v, "telegram", 8)
               \/ ~field_opt_string_ok(v, "website", 9)
            THEN None
            ELSE Some([name |-> name.value, symbol |-> symbol.value,
                       description |-> description.value, image |-> image.value,
                       show_name |-> show_name.value, created_on |-> created_on.value,
                       twitter |-> field_opt_string(v, "twitter", 7),
                       telegram |-> field_opt_string(v, "telegram", 8),
                       website |-> field_opt_string(v, "website", 9)])

TokenMetadataResponse_deserialize(v) ==
    IF v.t = "array" /\ Len(v.items) # 2 THEN None
    ELSE LET member == IF v.t = "object" THEN Value_get(v, "metadata")
                       ELSE IF v.t = "array" THEN Some(v.items[1])
                       ELSE None
             metadata_ == IF member = None THEN None
                          ELSE TokenMetadata_deserialize(member.value)
             metadata_uri == field_string(v, "metadataUri", 2)
         IN IF metadata_ = None \/ metadata_uri = None THEN None
            ELSE Some([metadata |-> metadata_.value, metadata_uri |-> metadata_uri.value])

\* serde_json::from_str::<T>(text)
from_str_typed(body, deserialize(_)) ==
    IF body.json THEN deserialize(body.value) ELSE None

(***************************************************************************)
(* upload_image_to_ipfs, from the response text on.                        *)
(***************************************************************************)
upload_image_to_ipfs_parse(body) ==
    LET parsed == from_str_typed(body, ImageUploadResponse_deserialize) IN
    IF parsed # None THEN Ok(parsed.value.image_uri) ELSE
    LET parsed_value == from_str_Value(body) IN
    IF parsed_value.kind = "err" THEN parsed_value ELSE
    LET v == parsed_value.value IN
    IF get_str(v, "imageUri") # None THEN Ok(get_str(v, "imageUri").value) ELSE
    IF get_str(v, "image_uri") # None THEN Ok(get_str(v, "image_uri").value) ELSE
    IF get_str(v, "uri") # None THEN Ok(get_str(v, "uri").value) ELSE
    IF get_str(v, "url") # None THEN Ok(get_str(v, "url").value) ELSE
    LET found == find_ipfs_string(v) IN
    IF found # None THEN Ok(found.value) ELSE
    Err(ErrorWithBody("unexpected image upload response: ", body))

(***************************************************************************)
(* upload_metadata_json, from the response text on.                        *)
(***************************************************************************)
upload_metadata_json_parse(body) ==
    LET parsed == from_str_typed(body, TokenMetadataResponse_deserialize) IN
    IF parsed # None THEN Ok(parsed.value) ELSE
    LET parsed_value == from_str_Value(body) IN
    IF parsed_value.kind = "err" THEN parsed_value ELSE
    LET v == parsed_value.value
        metadata_obj ==
            IF Value_get(v, "metadata") # None THEN Value_get(v, "metadata").value
            ELSE IF Value_get(v, "data") # None THEN Value_get(v, "data").value
            ELSE v
        metadata_ == TokenMetadata_deserialize(metadata_obj)
    IN
    IF metadata_ = None
    THEN Err(ErrorWithBody("failed to parse metadata object from response: ", body))
    ELSE
    LET metadata_uri ==
            IF get_str(v, "metadataUri") # None THEN get_str(v, "metadataUri")
            ELSE IF get_str(v, "metadata_uri") # None THEN get_str(v, "metadata_uri")
            ELSE IF get_str(v, "uri") # None THEN get_str(v, "uri")
            ELSE IF get_str(v, "url") # None THEN get_str(v, "url")
            ELSE find_ipfs_string(v)
    IN IF metadata_uri = None
       THEN Err(ErrorWithBody("unexpected metadata upload response: ", body))
       ELSE Ok([metadata |-> metadata_.value, metadata_uri |-> metadata_uri.value])

(***************************************************************************)
(* The multipart requests.  A request is its method, URI, content type and *)
(* form parts in order.                                                    *)
(***************************************************************************)
ENDPOINT == "https://pump.fun/api/ipfs"

CONTENT_TYPE == "multipart/form-data; boundary=------------------------f4d9c2e8b7a5310f"

Post(parts) ==
    [method |-> "POST", uri |-> ENDPOINT, content_type |-> CONTENT_TYPE, parts |-> parts]

\* upload_image_to_ipfs: one part, the file
image_request(file_contents) ==
    Post(<< [name |-> "file", filename |-> "file",
             content_type |-> "application/octet-stream", value |-> file_contents] >>)

append_text_field(body, name, value) == Append(body, [name |-> name, value |-> value])

append_if_some(body, name, opt) ==
    IF opt # None THEN append_text_field(body, name, opt.value) ELSE body

\* Mutant of metadata_request: the "image" fields carry the file path, not the image URI.
metadata_request_file_as_image(md, image_uri_) ==
    LET b1 == append_text_field(<<>>, "name", md.name)
        b2 == append_text_field(b1, "symbol", md.symbol)
        b3 == append_text_field(b2, "description", md.description)
        b4 == append_text_field(b3, "image", md.file)
        b5 == append_text_field(b4, "imageUri", md.file)
        b6 == append_if_some(b5, "twitter", md.twitter)
        b7 == append_if_some(b6, "telegram", md.telegram)
        b8 == append_if_some(b7, "website", md.website)
        b9 == append_text_field(b8, "showName", <<"t", "r", "u", "e">>)
    IN Post(append_text_field(b9, "createdOn",
                              <<"h", "t", "t", "p", "s", ":", "/", "/", "p", "u", "m", "p",
                                ".", "f", "u", "n">>))

\* upload_metadata_json: the text fields, no file
metadata_request(md, image_uri_) ==
    LET b1 == append_text_field(<<>>, "name", md.name)
        b2 == append_text_field(b1, "symbol", md.symbol)
        b3 == append_text_field(b2, "description", md.description)
        b4 == append_text_field(b3, "image", image_uri_)
        b5 == append_text_field(b4, "imageUri", image_uri_)
        b6 == append_if_some(b5, "twitter", md.twitter)
        b7 == append_if_some(b6, "telegram", md.telegram)
        b8 == append_if_some(b7, "website", md.website)
        b9 == append_text_field(b8, "showName", <<"t", "r", "u", "e">>)
    IN Post(append_text_field(b9, "createdOn",
                              <<"h", "t", "t", "p", "s", ":", "/", "/", "p", "u", "m", "p",
                                ".", "f", "u", "n">>))

(***************************************************************************)
(* The inputs of create_token_metadata and what the server may answer.     *)
(***************************************************************************)
T_ipfs == <<"i", "p", "f", "s", ":", "/", "/", "Q">>
T_IPFS == <<"g", "w", "/", "I", "P", "F", "S", "/", "Q">>
T_http == <<"h", "t", "t", "p", ":", "/", "/", "a">>
T_HTTPS == <<"H", "T", "T", "P", "S", ":", "/", "/", "b">>
T_plain == <<"Q", "m", "1">>
T_xhttp == <<"x", "h", "t", "t", "p">>
T_pump == <<"h", "t", "t", "p", "s", ":", "/", "/", "p", "u", "m", "p", ".", "f", "u", "n">>
T_meta == <<"i", "p", "f", "s", ":", "/", "/", "M">>

OptTexts == { None, Some(<<>>), Some(<<"@", "x">>) }

CreateTokenMetadatas ==
    [name : {<<"M", "y">>}, symbol : {<<"M", "T">>}, description : {<<"A">>},
     file : {<<"a", ".", "p", "n", "g">>, <<"b", "/", "c">>},
     twitter : OptTexts, telegram : OptTexts, website : OptTexts]

FileContents == { <<"P", "N", "G">> }

\* the two-element subsets of a sequence's elements, as <<earlier, later>>
PairsOf(seq) == { <<seq[i], seq[j]>> : i, j \in 1..Len(seq) } \ { <<seq[i], seq[i]>> : i \in 1..Len(seq) }

OrderedPairsOf(seq) ==
    { p \in PairsOf(seq) :
        \E i, j \in 1..Len(seq) : i < j /\ p = <<seq[i], seq[j]>> }

ImageKeys == <<"imageUri", "image_uri", "uri", "url", "data", "link">>

ImageValues ==
    { JString(T_ipfs), JString(T_HTTPS), JString(T_plain), JNumber(7),
      JObject("link" :> JString(T_ipfs)),
      JArray(<<JString(T_plain), JNumber(7), JString(T_http)>>) }

ImageValuePairs ==
    { <<JString(T_ipfs), JString(T_http)>>, <<JNumber(7), JString(T_IPFS)>> }

ImageBodies ==
    { NotJson("<html>502 Bad Gateway</html>"),
      Json(JString(T_ipfs)), Json(JNumber(7)), Json(JObject(<<>>)),
      Json(JArray(<<JString(T_plain)>>)),
      Json(JArray(<<JString(T_plain), JString(T_http)>>)),
      Json(JObject("data" :> JString(T_xhttp))),
      Json(JObject("data" :> JString(T_IPFS))),
      Json(JObject(("link" :> JString(T_http)) @@ ("data" :> JString(T_ipfs)))) }
    \cup { Json(JObject(ImageKeys[i] :> v)) : i \in 1..Len(ImageKeys), v \in ImageValues }
    \cup { Json(JObject((p[1] :> vs[1]) @@ (p[2] :> vs[2]))) :
             p \in OrderedPairsOf(ImageKeys), vs \in ImageValuePairs }

\* what the server echoes as the metadata object
Echo(image, created_on) ==
    ("name" :> JString(<<"M", "y">>)) @@ ("symbol" :> JString(<<"M", "T">>))
      @@ ("description" :> JString(<<"A">>)) @@ ("image" :> JString(image))
      @@ ("showName" :> JBool(TRUE)) @@ ("createdOn" :> JString(created_on))

EchoFull == Echo(T_ipfs, T_pump)

EchoPlain == Echo(T_plain, T_plain) @@ ("twitter" :> JNull)

EchoBroken == "name" :> JString(<<"M", "y">>)

MetadataCarriers ==
    { <<>>, EchoFull,
      "metadata" :> JObject(EchoFull), "metadata" :> JObject(EchoPlain),
      "metadata" :> JObject(EchoBroken), "data" :> JObject(EchoFull) }

LocationKeys == <<"metadataUri", "metadata_uri", "uri", "url", "location", "result">>

LocationMembers ==
    { <<>>, "result" :> JString(T_plain) }
    \cup { LocationKeys[i] :> v : i \in 1..Len(LocationKeys), v \in {JString(T_meta), JNumber(7)} }
    \cup { (p[1] :> JString(T_meta)) @@ (p[2] :> JString(T_http)) : p \in OrderedPairsOf(LocationKeys) }
    \cup { (p[1] :> JString(T_http)) @@ (p[2] :> JString(T_meta)) :
             p \in OrderedPairsOf(SubSeq(LocationKeys, 1, 4)) }

MetadataBodies ==
    { NotJson("<html>502 Bad Gateway</html>"),
      Json(JArray(<<JObject(EchoFull), JString(T_meta)>>)),
      Json(JString(T_meta)) }
    \cup { Json(JObject(l @@ c)) : c \in MetadataCarriers, l \in LocationMembers }

(***************************************************************************)
(* create_token_metadata: upload_image_to_ipfs, then upload_metadata_json. *)
(* Each action runs the code from one await point to the next (or to the   *)
(* return).  env records, in order, what the file system and the network   *)
(* did; requests records every request handed to send_async.               *)
(***************************************************************************)
IoError == [type |-> "io"]                \* std::io::Error from File::open / read_to_end
ClientError == [type |-> "isahc"]         \* isahc::Error from HttpClient::new / send_async

Init ==
    /\ metadata \in CreateTokenMetadatas
    /\ pc = "start"
    /\ env = <<>> /\ requests = <<>>
    /\ image_uri = None /\ text = None /\ result = None
    /\ call = None /\ ix = None /\ slip = None /\ slip_out = None

Return(value) == pc' = "done" /\ result' = value

\* File::open(file_path)? or read_to_end? fails: the call returns the io error.
ImageFileUnreadable ==
    /\ pc = "start"
    /\ env' = Append(env, "file_error")
    /\ Return(Err(IoError))
    /\ UNCHANGED <<call, ix, slip, slip_out, metadata, requests, image_uri, text>>

\* The file is read, but HttpClient::new()? fails: nothing is sent.
ImageClientFails ==
    /\ pc = "start"
    /\ env' = env \o <<"file_read", "client_error">>
    /\ Return(Err(ClientError))
    /\ UNCHANGED <<call, ix, slip, slip_out, metadata, requests, image_uri, text>>

\* The file is read and the image POST is handed to send_async.
SendImage ==
    /\ pc = "start"
    /\ \E file_contents \in FileContents :
          requests' = Append(requests, image_request(file_contents))
    /\ env' = Append(env, "file_read")
    /\ pc' = "image_sent"
    /\ UNCHANGED <<call, ix, slip, slip_out, metadata, image_uri, text, result>>

\* send_async(request).await? or response.text().await? fails.
ImageRequestFails ==
    /\ pc = "image_sent"
    /\ \E failure \in { <<"send_error", ClientError>>, <<"body_error", IoError>> } :
          /\ env' = Append(env, failure[1])
          /\ Return(Err(failure[2]))
    /\ UNCHANGED <<call, ix, slip, slip_out, metadata, requests, image_uri, text>>

\* Mutant of ImageResponse: a failed parse is replaced by an empty image URI
\* (unwrap_or_default) and the call goes on.
ImageResponse_unwrap_or_default ==
    /\ pc = "image_sent"
    /\ \E body \in ImageBodies :
          LET parsed == upload_image_to_ipfs_parse(body)
              uri == IF parsed.kind = "ok" THEN parsed.value ELSE <<>>
          IN /\ text' = body
             /\ env' = Append(env, "image_response")
             /\ image_uri' = Some(uri)
             /\ requests' = Append(requests, metadata_request(metadata, uri))
             /\ pc' = "metadata_sent"
             /\ result' = result
    /\ UNCHANGED <<call, ix, slip, slip_out, metadata>>

\* The image response's text arrives and is parsed.  On an image URI the call goes on
\* into upload_metadata_json, up to its send_async (or its failing HttpClient::new).
ImageResponse ==
    /\ pc = "image_sent"
    /\ \E body \in ImageBodies, client_ok \in BOOLEAN :
          LET parsed == upload_image_to_ipfs_parse(body) IN
          /\ text' = body
          /\ IF parsed.kind = "err"
             THEN /\ client_ok
                  /\ env' = Append(env, "image_response")
                  /\ Return(parsed)
                  /\ UNCHANGED <<image_uri, requests>>
             ELSE /\ image_uri' = Some(parsed.value)
                  /\ IF client_ok
                     THEN /\ env' = Append(env, "image_response")
                          /\ requests' =
                               Append(requests, metadata_request(metadata, parsed.value))
                          /\ pc' = "metadata_sent"
                          /\ result' = result
                     ELSE /\ env' = env \o <<"image_response", "client_error">>
                          /\ Return(Err(ClientError))
                          /\ requests' = requests
    /\ UNCHANGED <<call, ix, slip, slip_out, metadata>>

MetadataRequestFails ==
    /\ pc = "metadata_sent"
    /\ \E failure \in { <<"send_error", ClientError>>, <<"body_error", IoError>> } :
          /\ env' = Append(env, failure[1])
          /\ Return(Err(failure[2]))
    /\ UNCHANGED <<call, ix, slip, slip_out, metadata, requests, image_uri, text>>

\* The metadata response's text arrives and is parsed; create_token_metadata returns.
MetadataResponse ==
    /\ pc = "metadata_sent"
    /\ \E body \in MetadataBodies :
          /\ text' = body
          /\ Return(upload_metadata_json_parse(body))
    /\ env' = Append(env, "metadata_response")
    /\ UNCHANGED <<call, ix, slip, slip_out, metadata, requests, image_uri>>

Next ==
    \/ ImageFileUnreadable
    \/ ImageClientFails
    \/ SendImage
    \/ ImageRequestFails
    \/ ImageResponse
    \/ MetadataRequestFails
    \/ MetadataResponse

Spec == Init /\ [][Next]_vars

(***************************************************************************)
(* The documented "Account Requirements" tables of the three builders:     *)
(* per position, the account named, whether "signer" is listed, and        *)
(* whether the entry says writable, readonly, or neither.                  *)
(***************************************************************************)
Doc(account, signer, writable) ==
    [account |-> account, signer |-> signer, writable |-> writable]

create_AccountRequirements ==
    << Doc("Mint account", TRUE, "writable"),
       Doc("Mint authority PDA", FALSE, "readonly"),
       Doc("Bonding curve PDA", FALSE, "writable"),
       Doc("Bonding curve token account", FALSE, "writable"),
       Doc("Global configuration PDA", FALSE, "readonly"),
       Doc("MPL Token Metadata program", FALSE, "readonly"),
       Doc("Metadata PDA", FALSE, "writable"),
       Doc("Payer account", TRUE, "writable"),
       Doc("System program", FALSE, "readonly"),
       Doc("Token program", FALSE, "readonly"),
       Doc("Associated token program", FALSE, "readonly"),
       Doc("Rent sysvar", FALSE, "readonly"),
       Doc("Event authority", FALSE, "readonly"),
       Doc("Pump.fun program ID", FALSE, "readonly") >>

create_v2_AccountRequirements ==
    << Doc("Mint account", TRUE, "writable"),
       Doc("Mint authority PDA", FALSE, "readonly"),
       Doc("Bonding curve PDA", FALSE, "writable"),
       Doc("Bonding curve token account 2022", FALSE, "writable"),
       Doc("Global configuration PDA", FALSE, "readonly"),
       Doc("Payer account", TRUE, "writable"),
       Doc("System program", FALSE, "readonly"),
       Doc("Token 2022 program", FALSE, "readonly"),
       Doc("Associated token program", FALSE, "readonly"),
       Doc("Mayhem program ID", FALSE, "writable"),
       Doc("Global params PDA", FALSE, "readonly"),
       Doc("SOL vault PDA", FALSE, "writable"),
       Doc("Mayhem state PDA", FALSE, "writable"),
       Doc("Mayhem token vault", FALSE, "writable"),
       Doc("Event authority", FALSE, "readonly"),
       Doc("Pump.fun program ID", FALSE, "readonly") >>

extend_account_AccountRequirements ==
    << Doc("Account to extend", FALSE, "writable"),
       Doc("Payer account", TRUE, "unspecified"),
       Doc("System program", FALSE, "readonly"),
       Doc("Event authority", FALSE, "readonly"),
       Doc("Pump.fun program ID", FALSE, "readonly") >>

AccountRequirements(fn) ==
    CASE fn = "create" -> create_AccountRequirements
      [] fn = "create_v2" -> create_v2_AccountRequirements
      [] fn = "extend_account" -> extend_account_AccountRequirements

\* The address a documented account name stands for in call c.
DocumentedAddress(account, c) ==
    LET bonding_curve == Pda(<<"bonding-curve", c.mint>>, PUMPFUN) IN
    CASE account = "Mint account" -> c.mint
      [] account = "Mint authority PDA" -> get_mint_authority_pda
      [] account = "Bonding curve PDA" -> bonding_curve
      [] account = "Bonding curve token account" ->
            get_associated_token_address(bonding_curve, c.mint)
      [] account = "Bonding curve token account 2022" ->
            get_associated_token_address_with_program(bonding_curve, c.mint,
                                                      TOKEN_2022_PROGRAM)
      [] account = "Global configuration PDA" -> get_global_pda
      [] account = "MPL Token Metadata program" -> MPL_TOKEN_METADATA
      [] account = "Metadata PDA" -> get_metadata_pda(c.mint)
      [] account = "Payer account" -> c.payer
      [] account = "System program" -> SYSTEM_PROGRAM
      [] account = "Token program" -> TOKEN_PROGRAM
      [] account = "Token 2022 program" -> TOKEN_2022_PROGRAM
      [] account = "Associated token program" -> ASSOCIATED_TOKEN_PROGRAM
      [] account = "Rent sysvar" -> RENT
      [] account = "Event authority" -> EVENT_AUTHORITY
      [] account = "Pump.fun program ID" -> PUMPFUN
      [] account = "Mayhem program ID" -> MAYHEM_PROGRAM
      [] account = "Global params PDA" -> get_global_params_pda
      [] account = "SOL vault PDA" -> get_sol_vault_pda
      [] account = "Mayhem state PDA" -> get_mayhem_state_pda(c.mint)
      [] account = "Mayhem token vault" -> get_token_vault_pda(c.mint)
      [] account = "Account to extend" -> c.account

MatchesDoc(meta, doc, c) ==
    /\ meta.pubkey = DocumentedAddress(doc.account, c)
    /\ meta.is_signer = doc.signer
    /\ (doc.writable = "writable" => meta.is_writable)
    /\ (doc.writable = "readonly" => ~meta.is_writable)

Returned == ix.kind = "ok"

(***************************************************************************)
(* C1.  The instruction create(payer, mint, args) returns has exactly 14   *)
(* accounts, and the first of them is the mint's public key, marked signer *)
(* and writable.                                                           *)
(***************************************************************************)
C1_CreateFourteenAccountsMintFirst ==
    (call.fn = "create" /\ Returned) =>
        /\ Len(ix.accounts) = 14
        /\ ix.accounts[1] =
             [pubkey |-> call.mint, is_signer |-> TRUE, is_writable |-> TRUE]

C1_Witness ==
    /\ call.fn = "create" /\ Returned
    /\ call.mint # call.payer
    /\ call.args.name # <<>>

(***************************************************************************)
(* C2.  For create, create_v2 and extend_account the account list has the  *)
(* length, the order and the per-position signer and writable/readonly     *)
(* flags of the function's documented Account Requirements table.          *)
(* The builders do not meet it: position 2 of create and of create_v2, the *)
(* mint authority PDA documented readonly, is built writable.              *)
(***************************************************************************)
C2_AccountsMatchDocumentedTable ==
    Returned =>
        LET table == AccountRequirements(call.fn) IN
        /\ Len(ix.accounts) = Len(table)
        /\ \A i \in 1..Len(table) : MatchesDoc(ix.accounts[i], table[i], call)

(***************************************************************************)
(* C3.  The payload of a built instruction is the fixed 8-byte             *)
(* discriminator of its variant followed by the Borsh encoding of the      *)
(* fields in declared order (nothing for extend_account), whatever the     *)
(* field values; the three discriminators are pairwise distinct.           *)
(***************************************************************************)
C3_PayloadIsDiscriminatorThenFields ==
    Returned =>
        /\ call.fn = "create" =>
             /\ SubSeq(ix.data, 1, 8) = <<24, 30, 200, 40, 5, 28, 7, 119>>
             /\ Drop(ix.data, 8) =
                  BorshString(call.args.name) \o BorshString(call.args.symbol)
                    \o BorshString(call.args.uri) \o call.args.creator.bytes
        /\ call.fn = "create_v2" =>
             /\ SubSeq(ix.data, 1, 8) = <<214, 144, 76, 236, 95, 139, 49, 180>>
             /\ Drop(ix.data, 8) =
                  BorshString(call.args.name) \o BorshString(call.args.symbol)
                    \o BorshString(call.args.uri) \o call.args.creator.bytes
                    \o << IF call.args.is_mayhem_mode THEN 1 ELSE 0 >>
        /\ call.fn = "extend_account" =>
             ix.data = <<234, 102, 194, 203, 150, 72, 62, 229>>
        /\ \A other \in {Create_DISCRIMINATOR, CreateV2_DISCRIMINATOR,
                         ExtendAccount_DISCRIMINATOR} :
              other = SubSeq(ix.data, 1, 8) <=>
                 other = (CASE call.fn = "create" -> Create_DISCRIMINATOR
                            [] call.fn = "create_v2" -> CreateV2_DISCRIMINATOR
                            [] call.fn = "extend_account" -> ExtendAccount_DISCRIMINATOR)

C3_Witness ==
    /\ call.fn = "create_v2" /\ Returned
    /\ call.args.is_mayhem_mode
    /\ Len(call.args.name) = 4 /\ call.args.symbol = <<>> /\ Len(call.args.uri) = 1

(***************************************************************************)
(* C4.  Serialization round trip: dropping the first 8 bytes of data() and *)
(* decoding the rest with the same schema gives back exactly the Create    *)
(* (or CreateV2) value that was encoded, with no bytes left over.          *)
(***************************************************************************)
C4_SerializationRoundTrip ==
    Returned =>
        /\ call.fn = "create" =>
             Create_try_from_slice(Drop(ix.data, 8)) = Some(call.args)
        /\ call.fn = "create_v2" =>
             CreateV2_try_from_slice(Drop(ix.data, 8)) = Some(call.args)

C4_Witness ==
    /\ call.fn = "create" /\ Returned
    /\ call.args.name # call.args.symbol
    /\ call.args.symbol # call.args.uri
    /\ Len(call.args.uri) >= 3

(***************************************************************************)
(* The slippage formulas in exact integer arithmetic: q is                 *)
(* floor(amount * basis_points / 10000) iff                                *)
(* 10000 * q <= amount * basis_points < 10000 * (q + 1).                   *)
(***************************************************************************)
Slipped == slip_out # None

IsFloorOfSlippage(q, amount, basis_points) ==
    LET product == BigMul(amount, basis_points) IN
    /\ BigLeq(BigMul(q, NatLimbs(10000)), product)
    /\ BigLess(product, BigMul(BigAdd(q, NatLimbs(1)), NatLimbs(10000)))

IsAmountPlusSlippage(v, amount, basis_points) ==
    /\ BigLeq(amount, v)
    /\ IsFloorOfSlippage(BigSub(v, amount), amount, basis_points)

IsAmountMinusSlippage(v, amount, basis_points) ==
    /\ BigLeq(v, amount)
    /\ IsFloorOfSlippage(BigSub(amount, v), amount, basis_points)

SlippageFormulaHolds ==
    /\ slip_out.kind = "ok"
    /\ slip.fn = "calculate_with_slippage_buy" =>
          IsAmountPlusSlippage(slip_out.value, slip.amount, slip.basis_points)
    /\ slip.fn = "calculate_with_slippage_sell" =>
          IsAmountMinusSlippage(slip_out.value, slip.amount, slip.basis_points)

\* No step of the computation leaves the u64 range.
SlippageInRange ==
    LET product == BigMul(slip.amount, slip.basis_points)
        q == BigDiv(product, 10000)
    IN /\ FitsU64(product)
       /\ slip.fn = "calculate_with_slippage_buy" => FitsU64(BigAdd(slip.amount, q))
       /\ slip.fn = "calculate_with_slippage_sell" => BigLeq(q, slip.amount)

(***************************************************************************)
(* C5 as claimed: for ALL u64 amount and basis_points, buy returns         *)
(* amount + floor(amount*basis_points/10000) and sell returns              *)
(* amount - floor(amount*basis_points/10000).  Violated where the product, *)
(* the sum or the difference leaves the u64 range: the call panics or      *)
(* returns the wrapped value.                                              *)
(***************************************************************************)
C5_SlippageFormulaForAllU64 == Slipped => SlippageFormulaHolds

(***************************************************************************)
(* C5, amended.  For all u64 amount and basis_points such that             *)
(* amount*basis_points < 2^64 and the result is in the u64 range (the sum  *)
(* below 2^64 for buy, floor(amount*basis_points/10000) <= amount for      *)
(* sell), buy returns amount + floor(amount*basis_points/10000) and sell   *)
(* returns amount - floor(amount*basis_points/10000), in either build      *)
(* profile; buy(1_000_000_000, 100) = 1_010_000_000 and                    *)
(* sell(1_000_000_000, 100) = 990_000_000.                                 *)
(***************************************************************************)
C5_SlippageFormulaInRange ==
    Slipped =>
        /\ SlippageInRange => SlippageFormulaHolds
        /\ (slip.amount = NatLimbs(1000000000) /\ slip.basis_points = NatLimbs(100)) =>
              /\ slip.fn = "calculate_with_slippage_buy" =>
                    slip_out = Ok(NatLimbs(1010000000))
              /\ slip.fn = "calculate_with_slippage_sell" =>
                    slip_out = Ok(NatLimbs(990000000))

C5_Witness ==
    /\ slip.fn = "calculate_with_slippage_sell"
    /\ slip.amount = NatLimbs(9999) /\ slip.basis_points = NatLimbs(50)
    /\ slip_out = Ok(NatLimbs(9950))

(***************************************************************************)
(* C6.  calculate_with_slippage_sell called with                           *)
(* amount*basis_points/10000 > amount is rejected: it never returns a      *)
(* value (which could only be the difference wrapped modulo 2^64).         *)
(* Violated without overflow checks: sell(1, 20000) returns 2^64 - 1.      *)
(***************************************************************************)
C6_SellUnderflowRejected ==
    ( /\ Slipped
      /\ slip.fn = "calculate_with_slippage_sell"
      /\ BigLess(slip.amount,
                 BigDiv(BigMul(slip.amount, slip.basis_points), 10000)) )
    => slip_out.kind # "ok"

(***************************************************************************)
(* What the history shows of one create_token_metadata call.               *)
(***************************************************************************)
FailureEvents == {"file_error", "client_error", "send_error", "body_error"}

Last(seq) == seq[Len(seq)]

Happened(event) == \E i \in 1..Len(env) : env[i] = event

\* text holds the image response (the metadata response has not been read)
ImageBodyRead == Happened("image_response") /\ ~Happened("metadata_response")

\* text holds the metadata response
MetadataBodyRead == Happened("metadata_response")

\* the file read, the image request or the parse of the image response failed
ImageStepFailed ==
    \/ \E i \in 1..Len(env) :
          /\ env[i] \in FailureEvents
          /\ \A j \in 1..i : env[j] # "image_response"
    \/ ImageBodyRead /\ upload_image_to_ipfs_parse(text).kind = "err"

\* the metadata request or the parse of the metadata response failed
MetadataStepFailed ==
    \/ \E i \in 1..Len(env) :
          /\ env[i] \in FailureEvents
          /\ \E j \in 1..i : env[j] = "image_response"
    \/ MetadataBodyRead /\ upload_metadata_json_parse(text).kind = "err"

IsImagePost(r) ==
    /\ r.method = "POST" /\ r.uri = ENDPOINT
    /\ Len(r.parts) = 1 /\ r.parts[1].name = "file"

IsMetadataPost(r) ==
    /\ r.method = "POST" /\ r.uri = ENDPOINT
    /\ \A i \in 1..Len(r.parts) : r.parts[i].name # "file"

PartValues(r, name) ==
    LET named == SelectSeq(r.parts, LAMBDA part : part.name = name)
    IN [i \in 1..Len(named) |-> named[i].value]

(***************************************************************************)
(* C7.  In every execution of one create_token_metadata call the requests  *)
(* sent are a prefix of [image POST, metadata POST]: at most one request   *)
(* per step, the metadata POST only after the image POST completed and     *)
(* yielded an image location, which is the one the metadata POST carries;  *)
(* if the image step fails no metadata POST is sent and the call has       *)
(* returned the error.                                                     *)
(***************************************************************************)
C7_RequestsArePrefixOfImageThenMetadata ==
    /\ Len(requests) <= 2
    /\ Len(requests) >= 1 => IsImagePost(requests[1])
    /\ Len(requests) = 2 =>
          /\ IsMetadataPost(requests[2])
          /\ Happened("image_response") /\ image_uri # None
          /\ PartValues(requests[2], "image") = <<image_uri.value>>
          /\ PartValues(requests[2], "imageUri") = <<image_uri.value>>
          /\ ImageBodyRead => upload_image_to_ipfs_parse(text) = Ok(image_uri.value)
    /\ ImageStepFailed =>
          /\ Len(requests) <= 1
          /\ pc = "done" /\ result.kind = "err"

C7_Witness ==
    /\ pc = "done" /\ Len(requests) = 2
    /\ image_uri = Some(T_IPFS)
    /\ metadata.file # T_IPFS

FirstOf(options) ==
    LET hits == SelectSeq(options, LAMBDA o : o # None)
    IN IF hits = <<>> THEN None ELSE hits[1]

TypedImageShape(body) ==
    LET typed == from_str_typed(body, ImageUploadResponse_deserialize)
    IN IF typed = None THEN None ELSE Some(typed.value.image_uri)

TopLevelString(body, key) == IF body.json THEN get_str(body.value, key) ELSE None

RecursiveScan(body) == IF body.json THEN find_ipfs_string(body.value) ELSE None

FirstImageLocation(body) ==
    FirstOf(<< TypedImageShape(body),
               TopLevelString(body, "imageUri"), TopLevelString(body, "image_uri"),
               TopLevelString(body, "uri"), TopLevelString(body, "url"),
               RecursiveScan(body) >>)

ErrorContainsBody(e, body) == "text" \in DOMAIN e /\ e.text = body

C9_ImageParseFirstHitOrErrorWithBody ==
    ImageBodyRead =>
        LET location == FirstImageLocation(text) IN
        IF location # None
        THEN image_uri = location
        ELSE /\ image_uri = None
             /\ result.kind = "err"
             /\ ErrorContainsBody(result.error, text)

(***************************************************************************)
(* C10.  Metadata-response parsing extracts the metadata location: when    *)
(* the response carries it under a field other than metadataUri (the       *)
(* alternates metadata_uri, uri, url, or an unrecognised field that only   *)
(* the recursive scan reaches), the returned metadata_uri is that field's  *)
(* value, returned with the echoed metadata object; when no location is    *)
(* recognizable anywhere the call fails with a parse error that contains   *)
(* the raw response body.                                                  *)
(* Violated: the scan runs over the whole response, the echoed metadata    *)
(* object included, and returns its createdOn or image string when that    *)
(* comes first; and a body that is not JSON fails without the body.        *)
(***************************************************************************)
EchoedMetadata(v) ==
    TokenMetadata_deserialize(
        IF Value_get(v, "metadata") # None THEN Value_get(v, "metadata").value
        ELSE IF Value_get(v, "data") # None THEN Value_get(v, "data").value
        ELSE v)

\* the members of the response that are neither a known location field, nor the
\* metadata object, nor one of its fields
UnrecognisedKeys(v) ==
    SelectSeq(KeyOrder,
              LAMBDA k : /\ k \in DOMAIN v.members
                         /\ k \notin {"metadataUri", "metadata_uri", "uri", "url",
                                      "metadata", "data", "name", "symbol", "description",
                                      "image", "showName", "createdOn", "twitter",
                                      "telegram", "website"})

UnrecognisedLocation(v) ==
    find_first([i \in 1..Len(UnrecognisedKeys(v)) |-> v.members[UnrecognisedKeys(v)[i]]])

\* the location a response carries under a field other than metadataUri
AlternateMetadataLocation(v) ==
    IF v.t # "object" \/ get_str(v, "metadataUri") # None THEN None
    ELSE FirstOf(<< get_str(v, "metadata_uri"), get_str(v, "uri"), get_str(v, "url"),
                    UnrecognisedLocation(v) >>)

NoLocationAnywhere(body) ==
    \/ ~body.json
    \/ /\ TokenMetadataResponse_deserialize(body.value) = None
       /\ \A k \in {"metadataUri", "metadata_uri", "uri", "url"} :
             get_str(body.value, k) = None
       /\ find_ipfs_string(body.value) = None

C10_MetadataLocationExtracted ==
    MetadataBodyRead =>
        /\ ( /\ text.json
             /\ AlternateMetadataLocation(text.value) # None
             /\ EchoedMetadata(text.value) # None )
           => result = Ok([metadata |-> EchoedMetadata(text.value).value,
                           metadata_uri |-> AlternateMetadataLocation(text.value).value])
        /\ NoLocationAnywhere(text)
           => (result.kind = "err" /\ ErrorContainsBody(result.error, text))

(***************************************************************************)
(* C11.  In the metadata multipart body each optional social-link field    *)
(* (twitter, telegram, website) is included only when it is non-empty: an  *)
(* absent field or an empty string produces no form part, a non-empty one  *)
(* exactly one part; name, symbol, description, the image location and the *)
(* display flags are always present.                                       *)
(* Violated: Some("") passes `if let Some(..)` and produces a part with an *)
(* empty value.                                                            *)
(***************************************************************************)
SocialLinks == {"twitter", "telegram", "website"}

MetadataSent == Len(requests) = 2

IsNonEmpty(opt) == opt # None /\ opt.value # <<>>

AlwaysPresentParts ==
    /\ PartValues(requests[2], "name") = <<metadata.name>>
    /\ PartValues(requests[2], "symbol") = <<metadata.symbol>>
    /\ PartValues(requests[2], "description") = <<metadata.description>>
    /\ PartValues(requests[2], "image") = <<image_uri.value>>
    /\ PartValues(requests[2], "imageUri") = <<image_uri.value>>
    /\ PartValues(requests[2], "showName") = << <<"t", "r", "u", "e">> >>
    /\ PartValues(requests[2], "createdOn") = <<T_pump>>

C11_SocialLinksOnlyWhenNonEmpty ==
    MetadataSent =>
        /\ AlwaysPresentParts
        /\ \A link \in SocialLinks :
              PartValues(requests[2], link) =
                  IF IsNonEmpty(metadata[link]) THEN <<metadata[link].value>> ELSE <<>>

(***************************************************************************)
(* C12.  When the local image file is missing or unreadable,               *)
(* create_token_metadata fails with a distinct local-I/O error that        *)
(* identifies the file path, before any HTTP request is sent.              *)
(* Violated: the error is the std::io::Error of File::open or read_to_end, *)
(* returned by `?` as it is; it holds the OS error, not the path.          *)
(***************************************************************************)
FileUnreadable == Happened("file_error")

IdentifiesPath(e, path) == "path" \in DOMAIN e /\ e.path = path

C12_UnreadableFileErrorNamesPath ==
    FileUnreadable =>
        /\ requests = <<>>
        /\ pc = "done" /\ result.kind = "err"
        /\ result.error.type = "io"
        /\ IdentifiesPath(result.error, metadata.file)

(***************************************************************************)
(* C13.  When the derivation of the bonding-curve address fails for the    *)
(* mint, create and create_v2 abort construction and report the failure to *)
(* the caller as an explicit failure value: no instruction is returned and *)
(* no wrong address is used.                                               *)
(* Violated: both builders return Instruction, not a Result, and unwrap    *)
(* the derivation; a failed derivation panics.                             *)
(***************************************************************************)
DerivationFailed ==
    /\ call.fn \in {"create", "create_v2"}
    /\ get_bonding_curve_pda(call.mint, call.bump_found) = None

Called == ix # None

C13_DerivationFailureIsFailureValue ==
    (DerivationFailed /\ Called) => ix.kind = "err"

(***************************************************************************)
(* C14.  Each create variant uses one token standard throughout.  In       *)
(* create_v2 the bonding curve's associated token account (position 4) is  *)
(* derived from (bonding curve, Token-2022 program, mint), position 8 is   *)
(* the Token-2022 program and the legacy token program is nowhere in the   *)
(* account list; in create the associated token account is derived with    *)
(* the legacy token program and position 10 is the legacy token program;   *)
(* in both, the bonding curve of the derivation is the address at          *)
(* position 3.                                                             *)
(***************************************************************************)
AccountAt(i) == ix.accounts[i].pubkey

C14_TokenStandardConsistent ==
    /\ (call.fn = "create_v2" /\ Returned) =>
          /\ AccountAt(3) = get_bonding_curve_pda(call.mint, TRUE).value
          /\ AccountAt(4) = get_associated_token_address_with_program(
                                AccountAt(3), call.mint, TOKEN_2022_PROGRAM)
          /\ AccountAt(8) = TOKEN_2022_PROGRAM
          /\ \A i \in 1..Len(ix.accounts) : AccountAt(i) # TOKEN_PROGRAM
    /\ (call.fn = "create" /\ Returned) =>
          /\ AccountAt(3) = get_bonding_curve_pda(call.mint, TRUE).value
          /\ AccountAt(4) = get_associated_token_address_with_program(
                                AccountAt(3), call.mint, TOKEN_PROGRAM)
          /\ AccountAt(10) = TOKEN_PROGRAM
          /\ \A i \in 1..Len(ix.accounts) : AccountAt(i) # TOKEN_2022_PROGRAM

C14_Witness ==
    /\ call.fn = "create_v2" /\ Returned
    /\ call.args.is_mayhem_mode
    /\ call.mint # call.payer
    /\ AccountAt(4) # get_associated_token_address(AccountAt(3), call.mint)

====
